---- MODULE Spec2Model ----
(***************************************************************************)
(* A model of src/filesystem/file_organizer.py: the runner `main`, the two *)
(* registered organizers (SingleFile, HexOfbfuscated/RenameFile) and the   *)
(* MetaDataExtractor, run over a small directory tree.                     *)
(*                                                                         *)
(* Strings are sequences of one-character strings, paths are sequences of  *)
(* names relative to the target directory (the target itself is <<>>).     *)
(***************************************************************************)
EXTENDS Integers, Sequences, FiniteSets, TLC

VARIABLES
    args,       \* the parsed command line (global `args`, line 201-202)
    posix,      \* TRUE: os.rename replaces an existing file; FALSE: it raises
    dirs,       \* the directories that exist (paths)
    files,      \* the regular files that exist: path -> the path it had at start
    pc,         \* "main", "single_file", "rename", "exit", "name"
    todo,       \* the part of the traversal snapshot not yet visited
    order,      \* the snapshot entries visited so far, in order
    log,        \* what the run printed, one record per line that reports an action
    calls,      \* the calls made to the external guessit(query, options)
    res,        \* the dict of the latest get_new_name / generate_new_name_field
    exit_code,  \* the process exit status once pc = "exit"
    called,     \* TRUE once main called organizer.organize_file
    dirs0,      \* the tree at the start of the run (never changed)
    files0

vars == <<args, posix, dirs, files, pc, todo, order, log, calls, res,
          exit_code, called, dirs0, files0>>

----------------------------------------------------------------------------
(* Bounds of the model *)

\* the deepest entry of an input tree, counted from the target directory
MaxDepth == 3
\* the number of entries (files and directories) of an input tree for single_file
MaxEntries == 4
\* the number of entries of an input tree for hex_obfuscated
MaxRenameEntries == 3

----------------------------------------------------------------------------
(* String literals *)

None == <<"None">>

s_Show == <<"S","h","o","w">>
s_Movie == <<"M","o","v","i","e">>
s_101112 == <<"1","0",".","1","1",".","1","2">>
s_a1mp4 == <<"a","1",".","m","p","4">>
s_b2mp4 == <<"b","2",".","m","p","4">>
s_zztxt == <<"z","z",".","t","x","t">>
s_video == <<"v","i","d","e","o">>
s_Video == <<"V","i","d","e","o">>
s_video_mp4 == <<"v","i","d","e","o","/","m","p","4">>
s_text_plain == <<"t","e","x","t","/","p","l","a","i","n">>
s_720p == <<"7","2","0","p">>
s_Pilot == <<"P","i","l","o","t">>
s_media == <<"m","e","d","i","a">>

hexdigits ==
    {"0","1","2","3","4","5","6","7","8","9",
     "a","b","c","d","e","f","A","B","C","D","E","F"}

digits == <<"0","1","2","3","4","5","6","7","8","9">>

IsDigit(c) == \E i \in 1..10 : digits[i] = c

ascii_uppercase == <<"A","B","C","D","E","F","G","H","I","J","K","L","M",
                     "N","O","P","Q","R","S","T","U","V","W","X","Y","Z">>
ascii_lowercase == <<"a","b","c","d","e","f","g","h","i","j","k","l","m",
                     "n","o","p","q","r","s","t","u","v","w","x","y","z">>

\* str.lower()
lower(s) ==
    [i \in 1..Len(s) |->
        IF \E k \in 1..26 : ascii_uppercase[k] = s[i]
        THEN ascii_lowercase[CHOOSE k \in 1..26 : ascii_uppercase[k] = s[i]]
        ELSE s[i]]

\* str.find(sub): the 0-based index of the first occurrence, or -1
find(s, sub) ==
    LET hits == {i \in 1..(Len(s) - Len(sub) + 1) : SubSeq(s, i, i + Len(sub) - 1) = sub}
    IN IF hits = {} THEN -1
       ELSE (CHOOSE i \in hits : \A j \in hits : i <= j) - 1

\* str(n) for a natural number
RECURSIVE str(_)
str(n) == IF n < 10 THEN <<digits[n + 1]>> ELSE str(n \div 10) \o <<digits[(n % 10) + 1]>>

\* '{:0Nd}'-style zero padding, as strftime's %Y, %m, %d produce
RECURSIVE zfill(_, _)
zfill(s, w) == IF Len(s) >= w THEN s ELSE zfill(<<"0">> \o s, w)

----------------------------------------------------------------------------
(* Paths (pathlib.PurePath) *)

parent(p) == SubSeq(p, 1, Len(p) - 1)

\* the name of the target directory itself
root_name == s_media

name(p) == IF p = <<>> THEN root_name ELSE p[Len(p)]

\* index of the last "." of a name that starts a suffix, 0 if there is none
SuffixDot(n) ==
    LET dots == {i \in 1..Len(n) : n[i] = "."}
        i == IF dots = {} THEN 0 ELSE CHOOSE i \in dots : \A j \in dots : j <= i
    IN IF 1 < i /\ i < Len(n) THEN i ELSE 0

suffix(p) ==
    LET n == name(p) i == SuffixDot(n)
    IN IF i = 0 THEN <<>> ELSE SubSeq(n, i, Len(n))

stem(p) ==
    LET n == name(p) i == SuffixDot(n)
    IN IF i = 0 THEN n ELSE SubSeq(n, 1, i - 1)

with_name(p, n) == Append(parent(p), n)

----------------------------------------------------------------------------
(* The filesystem *)

exists(ds, fs, p) == p \in ds \/ p \in DOMAIN fs

\* Path.glob('**/*'): every entry below the target, empty unless it is a directory
glob(ds, fs) ==
    IF <<>> \in ds THEN (ds \cup DOMAIN fs) \ {<<>>} ELSE {}

\* the regular files / the subdirectories that Path.iterdir() yields for d
iter_files(fs, d) == {f \in DOMAIN fs : f # <<>> /\ parent(f) = d}
iter_dirs(ds, d) == {x \in ds : x # <<>> /\ parent(x) = d}

\* os.rename of a regular file onto a path that is not a directory
MoveFile(fs, src, dst) ==
    [p \in (DOMAIN fs \ {src}) \cup {dst} |-> IF p = dst THEN fs[src] ELSE fs[p]]

----------------------------------------------------------------------------
(* Input trees *)

DirNames == {s_Show, s_101112}
FileNames == {s_a1mp4, s_b2mp4, s_zztxt, s_Show}

EmptyTree == [d |-> {<<>>}, f |-> {}]

Grow(t, depth) ==
    LET free == {p \in {Append(d, n) : d \in {x \in t.d : Len(x) < depth},
                                       n \in DirNames \cup FileNames} :
                    p \notin t.d /\ p \notin t.f}
    IN {[d |-> t.d \cup {p}, f |-> t.f] : p \in {q \in free : name(q) \in DirNames}}
       \cup
       {[d |-> t.d, f |-> t.f \cup {p}] : p \in {q \in free : name(q) \in FileNames}}

RECURSIVE Trees(_, _)
Trees(n, depth) ==
    IF n = 0 THEN {EmptyTree}
    ELSE LET prev == Trees(n - 1, depth)
         IN prev \cup UNION {Grow(t, depth) : t \in prev}

\* the target path names a regular file / names nothing
FileTarget == [d |-> {}, f |-> {<<>>}]
NoTarget == [d |-> {}, f |-> {}]

SingleTrees == Trees(MaxEntries, MaxDepth)
RenameTrees == Trees(MaxRenameEntries, MaxDepth)

----------------------------------------------------------------------------
(* External collaborators *)

\* mimetypes.guess_type(path)[0], decided by the suffix
guess_type(p) ==
    LET sfx == suffix(p)
    IN IF sfx = <<".","m","p","4">> THEN s_video_mp4
       ELSE IF sfx = <<".","t","x","t">> THEN s_text_plain
       ELSE None

\* guessit(query, options): the fields the name-guessing library returns
guessit(query_str, options) ==
    IF query_str = s_Show
    THEN [title |-> s_Show, episode |-> 3, episode_title |-> s_Pilot]
    ELSE IF query_str = s_101112
    THEN [date |-> IF find(options, <<"-","Y">>) # -1 THEN <<2010, 11, 12>>
                   ELSE <<2012, 11, 10>>]
    ELSE IF query_str = root_name
    THEN [title |-> s_Movie, date |-> <<2020, 1, 2>>,
          alternative_title |-> s_Pilot, screen_size |-> s_720p]
    ELSE [title |-> query_str]

\* int(video_stream['height']) of ffmpeg.probe(file_path)
probe_height(p) == 720

----------------------------------------------------------------------------
(* MetaDataExtractor *)

guessit_short_date_options ==
    {<<"-","Y">>, <<"-","-","d","a","t","e","-","y","e","a","r","-","f","i","r","s","t">>,
     <<"-","D">>, <<"-","-","d","a","t","e","-","d","a","y","-","f","i","r","s","t">>}

type_options == {<<"-","t">>, <<"-","-","t","y","p","e">>}

s_t_movie == <<" ","-","t"," ","m","o","v","i","e">>

has(my_dict, key) == key \in DOMAIN my_dict

update(my_dict, key, val) ==
    [k \in DOMAIN my_dict \cup {key} |-> IF k = key THEN val ELSE my_dict[k]]

\* a slip that drops the separator
append_without_separator(my_dict, key) ==
    IF ~has(my_dict, key) THEN <<>> ELSE my_dict[key]

append(my_dict, key) ==
    IF ~has(my_dict, key) THEN <<>> ELSE <<"-">> \o my_dict[key]

\* the dict after the call: "new_name" added
generate_new_name_field(my_dict) ==
    LET new_name == my_dict["title"]
                    \o append(my_dict, "date")
                    \o append(my_dict, "episode")
                    \o append(my_dict, "episode_title")
                    \o append(my_dict, "screen_size")
    IN update(my_dict, "new_name", new_name)

\* a slip that never detects the short date
short_date_never(query_str) == FALSE

\* re.search('\d\d.\d\d.\d\d', query_str): "." matches any character but a newline
short_date(query_str) ==
    \E i \in 1..(Len(query_str) - 7) :
        /\ \A k \in {0, 1, 3, 4, 6, 7} : IsDigit(query_str[i + k])
        /\ \A k \in {2, 5} : query_str[i + k] # "\n"

\* [ok, why, call, result]: why names the exit taken, call the guessit calls made
guess_it(query_str, a) ==
    IF short_date(query_str)
       /\ (a.guessit_options = None
           \/ \A opt \in guessit_short_date_options : find(a.guessit_options, opt) = -1)
    THEN [ok |-> FALSE, why |-> "short_date", call |-> <<>>, result |-> <<>>]
    ELSE IF a.guessit_options = None
    THEN [ok |-> FALSE, why |-> "AttributeError", call |-> <<>>, result |-> <<>>]
    ELSE IF \E opt \in type_options : find(a.guessit_options, opt) # -1
    THEN [ok |-> FALSE, why |-> "type_option", call |-> <<>>, result |-> <<>>]
    ELSE LET o == a.guessit_options \o s_t_movie
         IN [ok |-> TRUE, why |-> "", call |-> <<[query |-> query_str, options |-> o]>>,
             result |-> guessit(query_str, o)]

\* '{:%Y.%m.%d}'.format(date_val)
format_date(d) ==
    zfill(str(d[1]), 4) \o <<".">> \o zfill(str(d[2]), 2) \o <<".">> \o zfill(str(d[3]), 2)

\* the fields get_new_name copies out of a guessit result that has a title
fields(g, file_path) ==
    LET r1 == [title |-> g.title]
        r2 == IF has(g, "date") THEN update(r1, "date", format_date(g.date)) ELSE r1
        r3 == IF has(g, "episode")
              THEN update(r2, "episode", <<"E">> \o str(g.episode)) ELSE r2
        r4 == IF has(g, "episode_title")
              THEN update(r3, "episode_title", g.episode_title)
              ELSE IF has(g, "alternative_title")
              THEN update(r3, "episode_title", g.alternative_title) ELSE r3
    IN IF has(g, "screen_size")
       THEN update(r4, "screen_size", g.screen_size)
       ELSE update(r4, "screen_size", str(probe_height(file_path)) \o <<"p">>)

\* [ok, why, call, res]
get_new_name(file_path, suggested_name, a) ==
    LET mime == guess_type(file_path)
    IN IF mime = None \/ find(lower(mime), s_video) = -1
       THEN [ok |-> TRUE, why |-> "", call |-> <<>>,
             res |-> generate_new_name_field([title |-> suggested_name])]
       ELSE LET g == guess_it(suggested_name, a)
            IN IF ~g.ok
               THEN [ok |-> FALSE, why |-> g.why, call |-> g.call, res |-> <<>>]
               ELSE IF ~has(g.result, "title")
               THEN [ok |-> FALSE, why |-> "no_title", call |-> g.call, res |-> <<>>]
               ELSE [ok |-> TRUE, why |-> "", call |-> g.call,
                     res |-> generate_new_name_field(fields(g.result, file_path))]

----------------------------------------------------------------------------
(* The organizers.  A step works on a record                                *)
(*   [dirs, files, log, calls, res, abort]                                  *)
(* abort = TRUE: the process ended there (sys.exit(1), sys.exit(message) or *)
(* an uncaught exception: each gives exit status 1).                        *)

Line(op, src, dst) == [op |-> op, src |-> src, dst |-> dst]

Abort(st, op, src, dst) ==
    [st EXCEPT !.log = Append(@, Line(op, src, dst)), !.abort = TRUE]

\* a slip that forgets the subdirectory count
single_file_ignoring_dirs(file_cnt, dir_cnt) == file_cnt = 1

\* line 104
is_single_file_dir(file_cnt, dir_cnt) == file_cnt = 1 /\ dir_cnt = 0

\* lines 105-107: pure.parents[1].joinpath(pure.name)
target_of(my_file) == Append(parent(parent(my_file)), name(my_file))

\* a slip that moves the file in a dry run too
move_always(fs, my_file, target_file, dry_run) == MoveFile(fs, my_file, target_file)

\* lines 112-113
move_unless_dry(fs, my_file, target_file, dry_run) ==
    IF dry_run THEN fs ELSE MoveFile(fs, my_file, target_file)

\* a slip that leaves the emptied directory behind
rmdir_never(ds, my_dir, dry_run) == ds

\* lines 115-116
rmdir_unless_dry(ds, my_dir, dry_run) ==
    IF dry_run THEN ds ELSE ds \ {my_dir}

\* one iteration of the loop of SingleFile.organize_file
SingleFileStep(st, my_dir, dry_run) ==
    IF my_dir \notin st.dirs
    THEN Abort(st, "FileNotFoundError", my_dir, <<>>)
    ELSE LET fls == iter_files(st.files, my_dir)
             file_cnt == Cardinality(fls)
             dir_cnt == Cardinality(iter_dirs(st.dirs, my_dir))
         IN IF is_single_file_dir(file_cnt, dir_cnt)
            THEN LET my_file == CHOOSE f \in fls : TRUE
                     target_file == target_of(my_file)
                 IN IF exists(st.dirs, st.files, target_file)
                    THEN Abort(st, "exists", target_file, <<>>)
                    ELSE [st EXCEPT
                            !.log = @ \o <<Line("move", my_file, target_file),
                                           Line("remove", my_dir, <<>>)>>,
                            !.files = move_unless_dry(@, my_file, target_file, dry_run),
                            !.dirs = rmdir_unless_dry(@, my_dir, dry_run)]
            ELSE st

\* a slip that tests the whole file name, extension included
valid_by_whole_name(current_file_name, a) ==
    IF a.force THEN TRUE
    ELSE \A i \in 1..Len(name(current_file_name)) :
            name(current_file_name)[i] \in hexdigits

\* HexOfbfuscated.is_current_file_name_valid_for_rename
is_current_file_name_valid_for_rename(current_file_name, a) ==
    IF a.force THEN TRUE
    ELSE \A i \in 1..Len(stem(current_file_name)) :
            stem(current_file_name)[i] \in hexdigits

\* Path.rename(new_file) of a regular file
rename(st, file_path, new_file, px) ==
    IF file_path \notin DOMAIN st.files
    THEN Abort(st, "FileNotFoundError", file_path, new_file)
    ELSE IF new_file = file_path THEN st
    ELSE IF new_file \in st.dirs
    THEN Abort(st, "IsADirectoryError", file_path, new_file)
    ELSE IF new_file \in DOMAIN st.files /\ ~px
    THEN Abort(st, "FileExistsError", file_path, new_file)
    ELSE [st EXCEPT !.files = MoveFile(@, file_path, new_file)]

\* lines 147-148
rename_unless_dry(st, file_path, new_file, dry_run, px) ==
    IF dry_run THEN st ELSE rename(st, file_path, new_file, px)

\* one iteration of the loop of RenameFile.organize_file
RenameStep(st, file_path, a, px) ==
    IF ~is_current_file_name_valid_for_rename(file_path, a)
    THEN [st EXCEPT !.log = Append(@, Line("skip", file_path, <<>>))]
    ELSE LET dir_name == name(parent(file_path))
             r == get_new_name(file_path, dir_name, a)
         IN IF ~r.ok
            THEN [Abort(st, r.why, file_path, <<>>) EXCEPT !.calls = @ \o r.call]
            ELSE LET new_name == r.res["new_name"] \o suffix(file_path)
                     new_file == with_name(file_path, new_name)
                     st1 == [st EXCEPT !.log = Append(@, Line("convert", file_path, new_file)),
                                       !.calls = @ \o r.call,
                                       !.res = r.res]
                 IN rename_unless_dry(st1, file_path, new_file, a.dry_run, px)

\* RenameFile.organize_file's mime_filter / no_filter
file_filter(my_file, a) ==
    IF a.mime = None \/ a.mime = <<>> THEN TRUE
    ELSE LET mime == guess_type(my_file)
         IN ~(mime = None \/ find(lower(mime), lower(a.mime)) = -1)

\* the traversal snapshots
dir_list(ds, fs) == {my_dir \in glob(ds, fs) : my_dir \in ds}
file_list(ds, fs, a) == {my_file \in glob(ds, fs) : my_file \in DOMAIN fs /\ file_filter(my_file, a)}

file_organizers == {"hex_obfuscated", "single_file"}

----------------------------------------------------------------------------
(* The run *)

State == [dirs |-> dirs, files |-> files, log |-> log, calls |-> calls,
          res |-> res, abort |-> FALSE]

Become(st) ==
    /\ dirs' = st.dirs
    /\ files' = st.files
    /\ log' = st.log
    /\ calls' = st.calls
    /\ res' = st.res
    /\ IF st.abort THEN pc' = "exit" /\ exit_code' = 1
       ELSE pc' = pc /\ exit_code' = exit_code

Exit(code) ==
    /\ pc' = "exit"
    /\ exit_code' = code
    /\ UNCHANGED <<args, posix, dirs, files, todo, order, log, calls, res, called,
                   dirs0, files0>>

\* lines 204-207
MainList ==
    /\ pc = "main"
    /\ args.list
    /\ Exit(0)

\* lines 208-210
MainNoOrganizer ==
    /\ pc = "main"
    /\ ~args.list
    /\ args.file_organizer = ""
    /\ Exit(1)

\* lines 211-213
MainUnsupported ==
    /\ pc = "main"
    /\ ~args.list
    /\ args.file_organizer # ""
    /\ args.file_organizer \notin file_organizers
    /\ Exit(1)

\* lines 215-218
MainNoPath ==
    /\ pc = "main"
    /\ ~args.list
    /\ args.file_organizer \in file_organizers
    /\ ~exists(dirs, files, <<>>)
    /\ Exit(1)

\* lines 219-223 (a target that is not a directory is reported and the run goes
\* on) and the snapshot organize_file takes (line 93, lines 134-135)
MainOrganize ==
    /\ pc = "main"
    /\ ~args.list
    /\ args.file_organizer \in file_organizers
    /\ exists(dirs, files, <<>>)
    /\ called' = TRUE
    /\ IF args.file_organizer = "single_file"
       THEN pc' = "single_file" /\ todo' = dir_list(dirs, files)
       ELSE pc' = "rename" /\ todo' = file_list(dirs, files, args)
    /\ UNCHANGED <<args, posix, dirs, files, order, log, calls, res, exit_code,
                   dirs0, files0>>

\* lines 94-116, one directory of dir_list
SingleFileVisit ==
    /\ pc = "single_file"
    /\ \E my_dir \in todo :
        /\ Become(SingleFileStep(State, my_dir, args.dry_run))
        /\ todo' = todo \ {my_dir}
        /\ order' = Append(order, my_dir)
    /\ UNCHANGED <<args, posix, called, dirs0, files0>>

\* lines 137-148, one file of files
RenameVisit ==
    /\ pc = "rename"
    /\ \E file_path \in todo :
        /\ Become(RenameStep(State, file_path, args, posix))
        /\ todo' = todo \ {file_path}
        /\ order' = Append(order, file_path)
    /\ UNCHANGED <<args, posix, called, dirs0, files0>>

\* organize_file returns and main falls off its end
Finish ==
    /\ pc \in {"single_file", "rename"}
    /\ todo = {}
    /\ Exit(0)

----------------------------------------------------------------------------
(* Command lines *)

GuessitOptions ==
    {None,
     <<>>,
     <<"-","Y">>,
     <<"-","t"," ","e","p","i","s","o","d","e">>,
     <<"-","Y"," ","-","-","e","x","p","e","c","t","e","d","-","t","i","t","l","e"," ","x">>}

Args(list, file_organizer, mime, dry_run, force, guessit_options) ==
    [list |-> list, file_organizer |-> file_organizer, mime |-> mime,
     dry_run |-> dry_run, force |-> force, guessit_options |-> guessit_options]

\* single_file reads only dry_run
SingleArgs == {Args(FALSE, "single_file", None, d, FALSE, None) : d \in BOOLEAN}

RenameArgs ==
    {Args(FALSE, "hex_obfuscated", m, d, f, g) :
        m \in {None, s_Video}, d \in BOOLEAN, f \in BOOLEAN, g \in GuessitOptions}

\* the command lines main itself decides
RunnerArgs ==
    {Args(l, o, None, FALSE, FALSE, None) :
        l \in BOOLEAN, o \in {"", "foo", "single_file", "hex_obfuscated"}}

Start(a, px, t) ==
    /\ args = a
    /\ posix = px
    /\ dirs = t.d
    /\ files = [p \in t.f |-> p]
    /\ dirs0 = t.d
    /\ files0 = [p \in t.f |-> p]
    /\ pc = "main"
    /\ todo = {}
    /\ order = <<>>
    /\ log = <<>>
    /\ calls = <<>>
    /\ res = <<>>
    /\ exit_code = 0
    /\ called = FALSE

Init ==
    \/ \E a \in SingleArgs, t \in SingleTrees : Start(a, TRUE, t)
    \/ \E a \in RenameArgs, px \in BOOLEAN, t \in RenameTrees : Start(a, px, t)
    \/ \E a \in RunnerArgs, t \in {EmptyTree, FileTarget, NoTarget} : Start(a, TRUE, t)

Next ==
    \/ MainList
    \/ MainNoOrganizer
    \/ MainUnsupported
    \/ MainNoPath
    \/ MainOrganize
    \/ SingleFileVisit
    \/ RenameVisit
    \/ Finish

Spec == Init /\ [][Next]_vars

----------------------------------------------------------------------------
(* generate_new_name_field on its own: Init draws a field set, the one     *)
(* action applies the function to it.                                      *)

s_20200102 == <<"2","0","2","0",".","0","1",".","0","2">>
s_E3 == <<"E","3">>

Optional(my_dict, key, val) == IF val = None THEN my_dict ELSE update(my_dict, key, val)

FieldSets ==
    {Optional(Optional(Optional(Optional([title |-> t], "date", d), "episode", e),
                       "episode_title", et), "screen_size", ss) :
        t \in {s_Show, s_Movie, <<>>},
        d \in {None, s_20200102},
        e \in {None, s_E3},
        et \in {None, s_Pilot, <<>>},
        ss \in {None, s_720p}}

InitName ==
    /\ res \in FieldSets
    /\ pc = "name"
    /\ args = Args(FALSE, "", None, FALSE, FALSE, None)
    /\ posix = TRUE
    /\ dirs = {}
    /\ files = <<>>
    /\ dirs0 = {}
    /\ files0 = <<>>
    /\ todo = {}
    /\ order = <<>>
    /\ log = <<>>
    /\ calls = <<>>
    /\ exit_code = 0
    /\ called = FALSE

Generate ==
    /\ pc = "name"
    /\ res' = generate_new_name_field(res)
    /\ pc' = "exit"
    /\ UNCHANGED <<args, posix, dirs, files, todo, order, log, calls, exit_code,
                   called, dirs0, files0>>

NextName == Generate

SpecName == InitName /\ [][NextName]_vars

----------------------------------------------------------------------------
(* Claims *)

Visited == order[Len(order)]
LastLine == log[Len(log)]
LogOps == {log[i].op : i \in 1..Len(log)}

\* this step is one iteration of organize_file's loop
VisitStep == Len(order') = Len(order) + 1
Visiting == order'[Len(order')]

SingleRun == args.file_organizer = "single_file" /\ called
RenameRun == args.file_organizer = "hex_obfuscated" /\ called

\* C1: in a non-dry-run of single_file, visiting a directory D that holds exactly
\* one file F and no subdirectory either aborts the whole run with status 1 and
\* changes nothing (an entry named like F exists in D's parent), or moves F into
\* D's parent under its own name, then removes D, changes nothing else and goes
\* on; and a run that ends with status 0 has removed every directory that held
\* exactly one file and no subdirectory at the start.
C1_CollapseStep ==
    (pc = "single_file" /\ ~args.dry_run /\ VisitStep) =>
        LET D == Visiting
            fls == iter_files(files, D)
        IN (D \in dirs /\ Cardinality(fls) = 1 /\ iter_dirs(dirs, D) = {}) =>
            LET F == CHOOSE f \in fls : TRUE
                T == parent(D) \o <<F[Len(F)]>>
            IN IF T \in dirs \/ T \in DOMAIN files
               THEN /\ pc' = "exit" /\ exit_code' = 1
                    /\ dirs' = dirs /\ files' = files
               ELSE /\ pc' = "single_file"
                    /\ dirs' = dirs \ {D}
                    /\ DOMAIN files' = (DOMAIN files \ {F}) \cup {T}
                    /\ files'[T] = files[F]
                    /\ \A p \in DOMAIN files \ {F} : files'[p] = files[p]
                    /\ log' = log \o <<Line("move", F, T), Line("remove", D, <<>>)>>

C1_AllCollapsed ==
    (SingleRun /\ ~args.dry_run /\ pc = "exit" /\ exit_code = 0) =>
        \A D \in dirs0 \ {<<>>} :
            (Cardinality(iter_files(files0, D)) = 1 /\ iter_dirs(dirs0, D) = {})
                => D \notin dirs

\* C1: every step collapses or aborts as C1_CollapseStep says, and every state
\* satisfies C1_AllCollapsed.
C1_SingleFileCollapse == [][C1_CollapseStep]_vars /\ [](C1_AllCollapsed)

\* a run that collapsed one directory and then aborted on a name clash
C1_Witness ==
    /\ SingleRun /\ ~args.dry_run
    /\ pc = "exit" /\ exit_code = 1
    /\ "remove" \in LogOps
    /\ LastLine.op = "exists"

\* organize_file's loop over the given visiting order, from a given state
RECURSIVE Replay(_, _, _, _)
Replay(st, seq, a, px) ==
    IF seq = <<>> \/ st.abort THEN st
    ELSE Replay(IF a.file_organizer = "single_file"
                THEN SingleFileStep(st, Head(seq), a.dry_run)
                ELSE RenameStep(st, Head(seq), a, px),
                Tail(seq), a, px)

InitialState == [dirs |-> dirs0, files |-> files0, log |-> <<>>, calls |-> <<>>,
                 res |-> <<>>, abort |-> FALSE]

\* D held exactly one file and no subdirectory when the run started
SingleAtStart(D) == Cardinality(iter_files(files0, D)) = 1 /\ iter_dirs(dirs0, D) = {}

\* D is still there and so is every file it held at the start
LeftAlone(D) ==
    /\ D \in dirs
    /\ \A F \in iter_files(files0, D) : F \in DOMAIN files /\ files[F] = F

\* every directory was visited after the directories that contain it
ParentFirst ==
    \A i \in 1..Len(order) : \A j \in 1..(Len(order[i]) - 1) :
        \E k \in 1..(i - 1) : order[k] = SubSeq(order[i], 1, j)

C3_DryRunTouchesNothing ==
    args.dry_run => dirs = dirs0 /\ files = files0

\* a dry run that reported a move and a removal, or a rename
C3_Witness ==
    /\ args.dry_run /\ called
    /\ pc = "exit"
    /\ LogOps \cap {"remove", "convert"} # {}

\* C4: a finished dry run has reported exactly the lines, and the abort if any,
\* of the run without the flag over the same tree, options and visiting order.
C4_DryRunReportsRealRun ==
    (called /\ args.dry_run /\ pc = "exit") =>
        LET real == Replay(InitialState, order, [args EXCEPT !.dry_run = FALSE], posix)
        IN real.log = log /\ real.abort = (exit_code # 0)

\* C5: a non-dry-run of hex_obfuscated loses no file: every file of the start
\* tree is still somewhere in the tree.
C5_NoFileLost ==
    (RenameRun /\ ~args.dry_run) =>
        \A p \in DOMAIN files0 : \E q \in DOMAIN files : files[q] = p

\* C6: a listing request exits 0 without calling organize_file; without one, a
\* missing or unregistered organizer, or a target that is missing or is not a
\* directory, never reaches organize_file and exits non-zero.
C6_MainRejects ==
    /\ (args.list /\ pc = "exit") => (exit_code = 0 /\ ~called)
    /\ (~args.list /\ (args.file_organizer \notin file_organizers \/ <<>> \notin dirs0))
        => (~called /\ (pc = "exit" => exit_code # 0))

\* the text holds two digits, a dot, two digits, a dot, two digits
HasShortDateText(s) ==
    \E i \in 1..(Len(s) - 7) :
        /\ \A k \in {0, 1, 3, 4, 6, 7} : s[i + k] \in {"0","1","2","3","4","5","6","7","8","9"}
        /\ s[i + 2] = "." /\ s[i + 5] = "."

NoDateOrderOption ==
    \/ args.guessit_options = None
    \/ \A opt \in guessit_short_date_options : find(args.guessit_options, opt) = -1

IsHexStem(f) == \A i \in 1..Len(stem(f)) : stem(f)[i] \in hexdigits
Eligible(f) == args.force \/ IsHexStem(f)
IsVideo(f) == guess_type(f) # None /\ find(guess_type(f), s_video) # -1

\* C7 as stated: a finished hex_obfuscated run with a candidate that passes the
\* eligibility check and whose parent directory name holds a short date, and no
\* date-order option, exited non-zero and left the tree as it was.
C7_ShortDateAbortsUntouched ==
    (RenameRun /\ pc = "exit" /\ NoDateOrderOption
        /\ \E f \in file_list(dirs0, files0, args) :
                Eligible(f) /\ HasShortDateText(name(parent(f))))
    => (exit_code # 0 /\ files = files0 /\ dirs = dirs0)

\* C7 amended: when the run visits an eligible candidate of a video MIME type
\* whose parent directory name holds a short date, and no date-order option was
\* given, that step ends the run with status 1, renames nothing and does not
\* call guessit.
C7_VideoShortDateStep ==
    (pc = "rename" /\ VisitStep) =>
        LET f == Visiting
        IN (Eligible(f) /\ IsVideo(f) /\ HasShortDateText(name(parent(f)))
            /\ NoDateOrderOption)
           => /\ pc' = "exit" /\ exit_code' = 1
              /\ files' = files /\ dirs' = dirs
              /\ calls' = calls
              /\ log' = Append(log, Line("short_date", f, <<>>))

\* C7 amended: every step satisfies C7_VideoShortDateStep.
C7_VideoShortDateAborts == [][C7_VideoShortDateStep]_vars

\* the run aborted on the short date after it had renamed another candidate
C7_Witness ==
    /\ RenameRun /\ pc = "exit" /\ exit_code = 1
    /\ LastLine.op = "short_date"
    /\ files # files0

\* C8: visiting a candidate without the force flag whose base name has a non-hex
\* character only reports the skip and goes on; visiting any other candidate
\* goes to name synthesis: the step either aborts there or reports the rename,
\* and a rename that a non-dry-run carries out puts the file under the new name.
C8_EligibilityStep ==
    (pc = "rename" /\ VisitStep) =>
        LET f == Visiting
        IN IF ~args.force /\ ~IsHexStem(f)
           THEN /\ log' = Append(log, Line("skip", f, <<>>))
                /\ files' = files /\ dirs' = dirs /\ calls' = calls
                /\ pc' = "rename"
           ELSE /\ Len(log') > Len(log)
                /\ LET first == log'[Len(log) + 1]
                   IN /\ first.src = f
                      /\ first.op \in {"convert", "short_date", "AttributeError",
                                       "type_option", "no_title"}
                      /\ (first.op = "convert" /\ ~args.dry_run /\ pc' = "rename")
                            => /\ first.dst \in DOMAIN files'
                               /\ files'[first.dst] = files[f]
                               /\ first.dst # f => f \notin DOMAIN files'

\* C8: every step satisfies C8_EligibilityStep.
C8_HexEligibility == [][C8_EligibilityStep]_vars

\* a run without the force flag that skipped one candidate and renamed another
C8_Witness ==
    /\ RenameRun /\ ~args.force /\ ~args.dry_run
    /\ {"skip", "convert"} \subseteq LogOps
    /\ files # files0

RECURSIVE JoinPresent(_, _)
JoinPresent(d, keys) ==
    IF keys = <<>> THEN <<>>
    ELSE (IF Head(keys) \in DOMAIN d THEN <<"-">> \o d[Head(keys)] ELSE <<>>)
         \o JoinPresent(d, Tail(keys))

s_Show_20200102_E3 ==
    <<"S","h","o","w","-","2","0","2","0",".","0","1",".","0","2","-","E","3">>

\* C9: the new-name field is the title followed by "-" and the value of each
\* present field among date, episode, episode_title, screen_size, in that order;
\* {title: Show, date: 2020.01.02, episode: E3} gives "Show-2020.01.02-E3" and
\* {title: Movie} gives "Movie".
C9_NewNameField ==
    "new_name" \in DOMAIN res =>
        /\ res["new_name"] =
            res["title"] \o JoinPresent(res, <<"date", "episode", "episode_title", "screen_size">>)
        /\ (DOMAIN res = {"title", "date", "episode", "new_name"}
            /\ res["title"] = s_Show /\ res["date"] = s_20200102 /\ res["episode"] = s_E3)
                => res["new_name"] = s_Show_20200102_E3
        /\ (DOMAIN res = {"title", "new_name"} /\ res["title"] = s_Movie)
                => res["new_name"] = s_Movie

C9_Witness ==
    /\ pc = "exit"
    /\ DOMAIN res = {"title", "date", "episode", "new_name"}
    /\ res["new_name"] = s_Show_20200102_E3

\* the option string has -t or --type as one of its space-separated words
SetsType(o) ==
    /\ o # None
    /\ \E w \in type_options : \E i \in 1..(Len(o) - Len(w) + 1) :
        /\ SubSeq(o, i, i + Len(w) - 1) = w
        /\ (i = 1 \/ o[i - 1] = " ")
        /\ (i + Len(w) - 1 = Len(o) \/ o[i + Len(w)] = " ")

\* C10: after the visit of an eligible video file whose parent directory name
\* has no short-date pattern, the run stopped on the options check exactly when
\* the options set a type, and otherwise guessit was called with the options
\* followed by " -t movie" and guess_it raised nothing.
C10_TypeOptionOnly ==
    (RenameRun /\ order # <<>> /\ Eligible(Visited) /\ IsVideo(Visited)
        /\ ~short_date(name(parent(Visited))))
    => /\ (LastLine.op = "type_option") <=> SetsType(args.guessit_options)
       /\ ~SetsType(args.guessit_options) =>
            /\ LastLine.op \notin {"type_option", "AttributeError", "short_date"}
            /\ calls # <<>>
            /\ calls[Len(calls)] = [query |-> name(parent(Visited)),
                                    options |-> args.guessit_options \o s_t_movie]

====
